---- MODULE Spec2Model ----
(***************************************************************************)
(* Signal backend service: the hold-period gate (needsRegeneration /        *)
(* shouldGenerateSignal), the per-symbol generation loop (generateSignals / *)
(* generateSignalsForTimeframe), the signal assembly of generateSignal and  *)
(* the market-data fallback chains (fetchPrice, fetchKlines).               *)
(*                                                                          *)
(* Time is the JavaScript epoch time in milliseconds.  Real-valued scores   *)
(* and confidences are fixed-point integers: scores in tenths, confidences  *)
(* in units of 1/ConfUnit, so that the code's arithmetic is exact.          *)
(***************************************************************************)
EXTENDS Integers, Sequences, FiniteSets, Bags, TLC

VARIABLES
    program,  \* which entry point runs: "service" (index.js) or "script"
    watched,  \* the timeframe whose keys are followed
    now,      \* wall clock, epoch milliseconds (new Date().getTime())
    store,    \* the `signals` table: a bag of rows
    runs,     \* the asynchronous activations of generateSignals & co.
    fired,    \* the cron callback of the current instant has been called
    log,      \* what the latest step reported: <<run, symbol index, outcome>>
    g,        \* one activation of generateSignal, after its fetches
    fp,       \* one activation of fetchPrice
    fk,       \* one activation of fetchKlines
    calc      \* one evaluation of a score calculator

serviceVars == <<program, watched, now, store, runs, fired, log>>

vars == <<program, watched, now, store, runs, fired, log, g, fp, fk, calc>>

----------------------------------------------------------------------------
(* Bounds of the model *)

\* clock instants after the start
MaxTicks == 2

\* cron-triggered runs in flight at once, beside the startup run
MaxRuns == 1

\* rows inserted after the start
MaxRows == 2

----------------------------------------------------------------------------
(* Program constants *)

MARKETS == <<"BTC", "ETH", "SOL">>

TIMEFRAMES == <<"15m", "1h", "daily">>

TimeframeSet == {TIMEFRAMES[k] : k \in 1..Len(TIMEFRAMES)}

\* minutes
HOLD_PERIODS == [tf \in TimeframeSet |->
                    CASE tf = "15m" -> 5
                      [] tf = "1h" -> 15
                      [] tf = "daily" -> 30]

\* the cron expressions '* * * * *', '*/5 * * * *', '*/15 * * * *': minutes
\* between two checks of a timeframe
CRON_MINUTES == [tf \in TimeframeSet |->
                    CASE tf = "15m" -> 1
                      [] tf = "1h" -> 5
                      [] tf = "daily" -> 15]

MsPerMinute == 60 * 1000

\* `${symbol.toLowerCase()}-usd`
MarketId(symbol) ==
    CASE symbol = "BTC" -> "btc-usd"
      [] symbol = "ETH" -> "eth-usd"
      [] symbol = "SOL" -> "sol-usd"
      [] OTHER -> "other-usd"

----------------------------------------------------------------------------
(* Values *)

\* null / undefined; a present value x is <<x>>
Null == <<>>

Some(x) == <<x>>

\* Date.prototype.toISOString: "YYYY-MM-DDTHH:mm:ss.sssZ", here the pair
\* (whole minutes, milliseconds within the minute)
ToISOString(t) == <<t \div MsPerMinute, t % MsPerMinute>>

\* new Date(isoString).getTime()
ParseDate(s) == s[1] * MsPerMinute + s[2]

----------------------------------------------------------------------------
(* generateSignal: scoring, thresholding and assembly *)

\* one confidence point in fixed-point units
ConfUnit == 100 * 1000

THRESHOLDS == [a \in {"conservative", "moderate", "aggressive"} |->
                  CASE a = "conservative" -> [up |-> 70, down |-> 30]
                    [] a = "moderate" -> [up |-> 62, down |-> 38]
                    [] a = "aggressive" -> [up |-> 60, down |-> 40]]

Max(a, b) == IF a >= b THEN a ELSE b

Min(a, b) == IF a <= b THEN a ELSE b

\* Math.round for a non-negative fixed-point value: the nearest integer,
\* halves upwards
MathRound(c) == (c + ConfUnit \div 2) \div ConfUnit

\* orderFlowScore * 0.35 + momentumScore * 0.40 + sentimentScore * 0.25,
\* scores in tenths, the result in thousandths
RawScore(d) == 35 * d.orderFlow + 40 * d.momentum + 25 * d.sentiment

\* In the variant the bullish cutoffs are inclusive.
AllBullishInclusive(d) ==
    d.orderFlow >= 100 /\ d.momentum >= 100 /\ d.sentiment >= 50

AllBullish(d) == d.orderFlow > 100 /\ d.momentum > 100 /\ d.sentiment > 50

AllBearish(d) == d.orderFlow < -100 /\ d.momentum < -100 /\ d.sentiment < -50

\* the amount `confidence += (allBullish ? 8 : -8)` adds, 0 when the
\* statement is skipped
ConfluenceAdjustment(d) ==
    IF AllBullish(d) \/ AllBearish(d)
    THEN (IF AllBullish(d) THEN 8 ELSE -8)
    ELSE 0

\* 50 + (rawScore * 1.67), rawScore in thousandths
MapRaw(raw) == 50 * ConfUnit + 167 * raw

\* In the variant the upper end of the clamp is missing.
ClampLow(c) == Max(0, c)

\* Math.max(0, Math.min(100, confidence))
Clamp(c) == Max(0, Min(100 * ConfUnit, c))

\* 50 + rawScore * 1.67, the confluence boost, the clamp to [0, 100]
Confidence(d) ==
    Clamp(MapRaw(RawScore(d)) + ConfluenceAdjustment(d) * ConfUnit)

\* In the variant a confidence on a threshold is not past it.
ResolveStrict(confidence, aggressiveness) ==
    LET thresh == THRESHOLDS[aggressiveness]
    IN  IF confidence > thresh.up * ConfUnit
        THEN [direction |-> "UP", tradeable |-> TRUE, confidence |-> Some(confidence)]
        ELSE IF confidence < thresh.down * ConfUnit
        THEN [direction |-> "DOWN", tradeable |-> TRUE, confidence |-> Some(confidence)]
        ELSE [direction |-> "FLAT", tradeable |-> FALSE, confidence |-> Null]

\* direction, tradeable and the confidence kept, from the clamped confidence
\* (fixed point)
Resolve(confidence, aggressiveness) ==
    LET thresh == THRESHOLDS[aggressiveness]
    IN  IF confidence >= thresh.up * ConfUnit
        THEN [direction |-> "UP", tradeable |-> TRUE, confidence |-> Some(confidence)]
        ELSE IF confidence <= thresh.down * ConfUnit
        THEN [direction |-> "DOWN", tradeable |-> TRUE, confidence |-> Some(confidence)]
        ELSE [direction |-> "FLAT", tradeable |-> FALSE, confidence |-> Null]

\* atrPercent in tenths of a percent, totalVolume = bidVolume + askVolume
checkRiskGates(d) ==
    [volatility_pass |-> d.atrPercent < 50,
     liquidity_pass |-> d.totalVolume > 10,
     conflict_pass |-> TRUE,
     time_pass |-> TRUE,
     correlation_pass |-> TRUE]

\* In the variant the confidence is rounded whatever `tradeable` is:
\* Math.round(null) is 0.
EmittedConfidenceUnguarded(r) ==
    Some(MathRound(IF r.confidence = Null THEN 0 ELSE r.confidence[1]))

\* confidence: tradeable ? Math.round(confidence) : null
EmittedConfidence(r) ==
    IF r.tradeable THEN Some(MathRound(r.confidence[1])) ELSE Null

\* In the variant the hold period is taken in seconds.
HoldUntilSeconds(t, timeframe) ==
    LET holdMinutes == HOLD_PERIODS[timeframe]
    IN  t + holdMinutes * 1000

\* new Date(now.getTime() + holdMinutes * 60 * 1000)
HoldUntil(t, timeframe) ==
    LET holdMinutes == HOLD_PERIODS[timeframe]
    IN  t + holdMinutes * 60 * 1000

\* In the variant a failed volatility or liquidity gate vetoes the trade.
AssembleGated(symbol, timeframe, aggressiveness, d, confidence, t) ==
    LET r == Resolve(confidence, aggressiveness)
        gates == checkRiskGates(d)
        tradeable == r.tradeable /\ gates.volatility_pass /\ gates.liquidity_pass
        riskGates == [gates EXCEPT !.conflict_pass = tradeable]
        holdUntil == HoldUntil(t, timeframe)
    IN  [market_id |-> MarketId(symbol),
         timeframe |-> timeframe,
         direction |-> IF tradeable THEN r.direction ELSE "FLAT",
         confidence |-> IF tradeable THEN EmittedConfidence(r) ELSE Null,
         tradeable |-> tradeable,
         volatility_pass |-> riskGates.volatility_pass,
         liquidity_pass |-> riskGates.liquidity_pass,
         conflict_pass |-> riskGates.conflict_pass,
         time_pass |-> riskGates.time_pass,
         correlation_pass |-> riskGates.correlation_pass,
         generated_at |-> ToISOString(t),
         hold_until |-> ToISOString(holdUntil),
         expires_at |-> Null]

\* the record generateSignal returns, from the fetched data's scores, the
\* clamped confidence and the clock value read at `const now = new Date()`.
\* The rationale (a random phrase) and the rounded component scores are
\* display fields and are left out.
Assemble(symbol, timeframe, aggressiveness, d, confidence, t) ==
    LET r == Resolve(confidence, aggressiveness)
        riskGates == [checkRiskGates(d) EXCEPT !.conflict_pass = r.tradeable]
        holdUntil == HoldUntil(t, timeframe)
    IN  [market_id |-> MarketId(symbol),
         timeframe |-> timeframe,
         direction |-> r.direction,
         confidence |-> EmittedConfidence(r),
         tradeable |-> r.tradeable,
         volatility_pass |-> riskGates.volatility_pass,
         liquidity_pass |-> riskGates.liquidity_pass,
         conflict_pass |-> riskGates.conflict_pass,
         time_pass |-> riskGates.time_pass,
         correlation_pass |-> riskGates.correlation_pass,
         generated_at |-> ToISOString(t),
         hold_until |-> ToISOString(holdUntil),
         expires_at |-> Null]

generateSignal(symbol, timeframe, aggressiveness, d, t) ==
    Assemble(symbol, timeframe, aggressiveness, d, Confidence(d), t)

----------------------------------------------------------------------------
(* The signal store and the hold-period gate *)

MatchingRows(rows, marketId, timeframe) ==
    {k \in BagToSet(rows) : k.market_id = marketId /\ k.timeframe = timeframe}

\* In the variant the rows are ordered by generated_at ascending.
SelectOldest(rows, marketId, timeframe) ==
    LET m == MatchingRows(rows, marketId, timeframe)
        top == {k \in m : \A o \in m :
                    ParseDate(o.generated_at) >= ParseDate(k.generated_at)}
    IN  IF m = {} THEN {Null}
        ELSE {Some([hold_until |-> k.hold_until]) : k \in top}

\* .select('hold_until').eq('market_id', ..).eq('timeframe', ..)
\* .order('generated_at', {ascending: false}).limit(1).single():
\* the possible `data` values of an answered query (rows of equal
\* generated_at come in any order)
SelectLatest(rows, marketId, timeframe) ==
    LET m == MatchingRows(rows, marketId, timeframe)
        top == {k \in m : \A o \in m :
                    ParseDate(o.generated_at) <= ParseDate(k.generated_at)}
    IN  IF m = {} THEN {Null}
        ELSE {Some([hold_until |-> k.hold_until]) : k \in top}

\* In the variant an unanswered query is repeated until the store answers.
QueryResultsRepeated(rows, marketId, timeframe, answered) ==
    SelectLatest(rows, marketId, timeframe)

\* the `data` of the resolved query; a query the store could not answer
\* resolves to {data: null, error}
QueryResults(rows, marketId, timeframe, answered) ==
    IF answered THEN SelectLatest(rows, marketId, timeframe) ELSE {Null}

\* In the variant the comparison of the two dates is turned around.
needsRegenerationInverted(data, t) ==
    IF data = Null THEN TRUE ELSE t < ParseDate(data[1].hold_until)

\* index.js: if (!data) return true; return new Date() > new Date(data.hold_until)
needsRegeneration(data, t) ==
    IF data = Null THEN TRUE ELSE t > ParseDate(data[1].hold_until)

\* generateSignals.js: if (!existing) return true;
\* return now > new Date(existing.hold_until)
shouldGenerateSignal(existing, t) ==
    IF existing = Null THEN TRUE ELSE t > ParseDate(existing[1].hold_until)

----------------------------------------------------------------------------
(* Runs of the generation loop *)

\* slot 0 is the startup pass (service) or the script's pass
Slots == 0..MaxRuns

FetchNames == {"klines", "orderBook", "price"}

\* Promise.all([fetchKlines, fetchOrderBook, fetchPrice]): each call
\* fulfils or rejects
FetchOutcomes == [FetchNames -> {"ok", "failed"}]

FetchErrors == {"klinesError", "orderBookError", "priceError"}

ErrorOf(x) ==
    CASE x = "klines" -> "klinesError"
      [] x = "orderBook" -> "orderBookError"
      [] x = "price" -> "priceError"

\* the rejections Promise.all may settle with: anyone of the failed calls
\* (the one that rejects first), none when all three fulfil.  In the variant
\* only a failed candle fetch rejects.
RejectionsKlinesOnly(f) ==
    {ErrorOf(x) : x \in {y \in {"klines"} : f[y] = "failed"}}

Rejections(f) ==
    {ErrorOf(x) : x \in {y \in FetchNames : f[y] = "failed"}}

\* the scores and gate inputs computed from fetched data, in the
\* service's runs one sample: all three scores bullish, an ATR of 6 % (the
\* volatility gate fails)
ServiceData ==
    {[orderFlow |-> 120, momentum |-> 150, sentiment |-> 80,
      atrPercent |-> 60, totalVolume |-> 100]}

Idle == [kind |-> "idle", i |-> 0, pc |-> "idle", fetches |-> Null, sig |-> Null]

NewRun(kind, pc) ==
    [kind |-> kind, i |-> 1, pc |-> pc, fetches |-> Null, sig |-> Null]

\* the next iteration of `for (const symbol of MARKETS)`
Advance(run) ==
    [run EXCEPT !.i = @ + 1,
                !.pc = IF run.i = Len(MARKETS) THEN "done" ELSE "check",
                !.fetches = Null,
                !.sig = Null]

\* `continue` after "Holding existing signal"
OnHolding(run) == Advance(run)

\* In the variant the exception leaves the loop.
OnGenerateErrorEscapes(run) ==
    [run EXCEPT !.pc = "done", !.fetches = Null, !.sig = Null]

\* catch (error) { console.error(...) } around the generation of one symbol
OnGenerateError(run) == Advance(run)

\* In the variant the failed insert is attempted again.
OnInsertErrorRetry(run) == run

\* if (error) console.error('Failed to save signal ...')
OnInsertError(run) == Advance(run)

\* else console.log('Generated ...')
OnInserted(run) == Advance(run)

----------------------------------------------------------------------------
(* The service (index.js) and the script (generateSignals.js) *)

\* the process starts one cron period before the hold of the prior rows
\* closes
StartMs(tf) == (HOLD_PERIODS[tf] - CRON_MINUTES[tf]) * MsPerMinute

\* rows left by an earlier process: one signal per symbol, generated at
\* instant 0
PriorStore(tf) ==
    SetToBag({generateSignal(MARKETS[k], tf, "aggressive", d, 0) :
                 k \in 1..Len(MARKETS), d \in ServiceData})

\* the number of rows inserted since the start
Inserted(rows, tf) ==
    BagCardinality(rows) - BagCardinality(PriorStore(tf) (-) (PriorStore(tf) (-) rows))

IdleSignal ==
    [stage |-> "idle"]

IdlePrice ==
    [pc |-> "idle"]

IdleKlines ==
    [pc |-> "idle"]

IdleCalc ==
    [fn |-> "idle"]

Init ==
    /\ program \in {"service", "script"}
    /\ watched \in TimeframeSet
    /\ now = StartMs(watched)
    /\ store \in {EmptyBag, PriorStore(watched)}
    /\ runs = [r \in Slots |->
                 IF r = 0
                 THEN NewRun(IF program = "service" THEN "startup" ELSE "script",
                             "prices")
                 ELSE Idle]
    /\ fired = TRUE
    /\ log = <<>>
    /\ g = IdleSignal
    /\ fp = IdlePrice
    /\ fk = IdleKlines
    /\ calc = IdleCalc

\* what the startup sequence and the script do before the pass of the
\* watched timeframe: updatePrices / updateMarketPrices (the markets table
\* only, failures caught inside) and the passes of the timeframes before it
UpdatePrices(r) ==
    /\ runs[r].pc = "prices"
    /\ runs' = [runs EXCEPT ![r].pc = "check"]
    /\ log' = <<>>
    /\ UNCHANGED <<program, watched, now, store, fired, g, fp, fk, calc>>

\* cron.schedule(..., () => generateSignals(tf)): node-cron calls the
\* callback at every scheduled instant, whether or not an earlier call is
\* still running
CronFire(r) ==
    /\ program = "service"
    /\ ~fired
    /\ r > 0
    /\ runs[r] = Idle
    /\ runs' = [runs EXCEPT ![r] = NewRun("cron", "check")]
    /\ fired' = TRUE
    /\ log' = <<>>
    /\ UNCHANGED <<program, watched, now, store, g, fp, fk, calc>>

\* `node src/generateSignals.js` started again after the last pass ended
ScriptStart(r) ==
    /\ program = "script"
    /\ r = 0
    /\ \A q \in Slots : runs[q] = Idle
    /\ runs' = [runs EXCEPT ![r] = NewRun("script", "prices")]
    /\ log' = <<>>
    /\ UNCHANGED <<program, watched, now, store, fired, g, fp, fk, calc>>

\* const shouldGenerate = await needsRegeneration(marketId, timeframe), and
\* the branch on it; `answers` are the ways the store may respond
CheckWith(r, answers) ==
    LET run == runs[r]
        marketId == MarketId(MARKETS[run.i])
    IN  /\ run.pc = "check"
        /\ \E answered \in answers :
             \E data \in QueryResults(store, marketId, watched, answered) :
                LET due == IF run.kind = "script"
                           THEN shouldGenerateSignal(data, now)
                           ELSE needsRegeneration(data, now)
                IN  /\ runs' = [runs EXCEPT ![r] =
                                   IF due THEN [run EXCEPT !.pc = "generate"]
                                   ELSE OnHolding(run)]
                    /\ log' = IF ~answered THEN <<r, run.i, "lookupError">>
                              ELSE IF due THEN <<r, run.i, "due">>
                              ELSE <<r, run.i, "holding">>
        /\ UNCHANGED <<program, watched, now, store, fired, g, fp, fk, calc>>

Check(r) == CheckWith(r, BOOLEAN)

\* const signal = await generateSignal(symbol, timeframe, 'aggressive')
Generate(r) ==
    LET run == runs[r]
    IN  /\ run.pc = "generate"
        /\ \E f \in FetchOutcomes :
             \/ \E e \in Rejections(f) :
                  /\ runs' = [runs EXCEPT ![r] = OnGenerateError(run)]
                  /\ log' = <<r, run.i, e>>
             \/ /\ Rejections(f) = {}
                /\ \E d \in ServiceData :
                     runs' = [runs EXCEPT ![r] =
                                [run EXCEPT !.pc = "insert",
                                            !.fetches = Some(f),
                                            !.sig = Some(generateSignal(
                                                MARKETS[run.i], watched,
                                                "aggressive", d, now))]]
                /\ log' = <<>>
        /\ UNCHANGED <<program, watched, now, store, fired, g, fp, fk, calc>>

\* const { error } = await supabase.from('signals').insert(signal)
Insert(r) ==
    LET run == runs[r]
    IN  /\ run.pc = "insert"
        /\ \/ /\ Inserted(store, watched) < MaxRows
              /\ store' = store (+) SetToBag({run.sig[1]})
              /\ runs' = [runs EXCEPT ![r] = OnInserted(run)]
              /\ log' = <<r, run.i, "stored">>
           \/ /\ store' = store
              /\ runs' = [runs EXCEPT ![r] = OnInsertError(run)]
              /\ log' = <<r, run.i, "insertError">>
        /\ UNCHANGED <<program, watched, now, fired, g, fp, fk, calc>>

\* the loop is over: the async function returns
EndPass(r) ==
    /\ runs[r].pc = "done"
    /\ runs' = [runs EXCEPT ![r] = Idle]
    /\ log' = <<>>
    /\ UNCHANGED <<program, watched, now, store, fired, g, fp, fk, calc>>

\* the clock reaches the next scheduled instant of the watched timeframe;
\* the callback of the current instant has been called by then
Tick ==
    /\ now < StartMs(watched) + MaxTicks * CRON_MINUTES[watched] * MsPerMinute
    /\ program = "service" => (fired \/ \A r \in Slots \ {0} : runs[r] # Idle)
    /\ now' = now + CRON_MINUTES[watched] * MsPerMinute
    /\ fired' = FALSE
    /\ log' = <<>>
    /\ UNCHANGED <<program, watched, store, runs, g, fp, fk, calc>>

Next ==
    \/ \E r \in Slots : UpdatePrices(r)
    \/ \E r \in Slots : CronFire(r)
    \/ \E r \in Slots : ScriptStart(r)
    \/ \E r \in Slots : Check(r)
    \/ \E r \in Slots : Generate(r)
    \/ \E r \in Slots : Insert(r)
    \/ \E r \in Slots : EndPass(r)
    \/ Tick

Spec == Init /\ [][Next]_vars

\* the service alone, with a store that answers every lookup
InitService == Init /\ program = "service"

CheckAnswered(r) == CheckWith(r, {TRUE})

NextServiceReliable ==
    \/ \E r \in Slots : UpdatePrices(r)
    \/ \E r \in Slots : CronFire(r)
    \/ \E r \in Slots : CheckAnswered(r)
    \/ \E r \in Slots : Generate(r)
    \/ \E r \in Slots : Insert(r)
    \/ \E r \in Slots : EndPass(r)
    \/ Tick

SpecServiceReliable == InitService /\ [][NextServiceReliable]_vars

----------------------------------------------------------------------------
(* Properties of the service and the script *)

\* the stored signals of a key whose generated_at is the greatest
LatestRows(rows, marketId, timeframe) ==
    LET m == MatchingRows(rows, marketId, timeframe)
    IN  {k \in m : \A o \in m :
            ParseDate(o.generated_at) <= ParseDate(k.generated_at)}

\* what the hold gate has to answer for a key at time t: due when the key
\* has no stored signal or t is past the hold_until of its latest signal
ExpectedDue(rows, marketId, timeframe, t) ==
    \/ MatchingRows(rows, marketId, timeframe) = {}
    \/ \A k \in LatestRows(rows, marketId, timeframe) :
          t > ParseDate(k.hold_until)

\* the run r reported `outcome` for a symbol in this step
Reports(r, outcome) ==
    /\ log' # <<>>
    /\ log'[1] = r
    /\ log'[2] = runs[r].i
    /\ log'[3] = outcome

\* C1: every evaluation of needsRegeneration / shouldGenerateSignal for a key
\* sends the run to generation exactly when the store holds no signal for
\* the key or now is strictly past the hold_until of its latest signal
\* (false at now = hold_until).
C1_HoldGate ==
    [][\A r \in Slots :
          (runs[r].pc = "check" /\ runs'[r] # runs[r])
             => (runs'[r].pc = "generate"
                    <=> ExpectedDue(store, MarketId(MARKETS[runs[r].i]),
                                    watched, now))]_vars

\* C2: of two stored signals of one key, the later one was generated
\* strictly after the hold_until of the earlier one: no signal is generated
\* and inserted while the key's latest signal still holds, overlapping runs
\* included.
C2_NoRegenerationInsideHold ==
    \A a \in BagToSet(store) :
       /\ CopiesIn(a, store) = 1
       /\ \A b \in BagToSet(store) :
             (/\ a # b
              /\ a.market_id = b.market_id
              /\ a.timeframe = b.timeframe
              /\ ParseDate(a.generated_at) <= ParseDate(b.generated_at))
                => ParseDate(b.generated_at) > ParseDate(a.hold_until)

Failures == FetchErrors \cup {"insertError"}

\* C6: a failure met while one symbol is handled (lookup, fetch or insert)
\* ends at most that symbol's handling: after a failed lookup the symbol is
\* treated as due in the same run, after a failed fetch or insert the loop
\* goes on with the next symbol, and a run ends only after the last symbol
\* of MARKETS, in the service's and in the script's loop.
C6_FailureIsolation ==
    [][\A r \in Slots :
          /\ Reports(r, "lookupError")
                => (runs'[r].pc = "generate" /\ runs'[r].i = runs[r].i)
          /\ (\E e \in Failures : Reports(r, e))
                => /\ runs'[r].i = runs[r].i + 1
                   /\ runs'[r].pc = IF runs[r].i < Len(MARKETS)
                                    THEN "check" ELSE "done"
          /\ runs'[r].pc = "done" => runs'[r].i = Len(MARKETS) + 1
          /\ (runs[r] # Idle /\ runs'[r] = Idle) => runs[r].pc = "done"]_vars

\* a run has stored the second symbol although the first symbol, handled
\* earlier in every run, has no row: each attempt on the first one failed
C6_Witness ==
    /\ \E r \in Slots : log = <<r, 2, "stored">>
    /\ MatchingRows(store, MarketId(MARKETS[1]), watched) = {}
    /\ MatchingRows(store, MarketId(MARKETS[2]), watched) # {}

\* C7: when a fetch of generateSignal fails, the attempt ends without a
\* signal: nothing is inserted, the same run does not try the symbol again,
\* and a signal waits for insertion only if all three fetches succeeded.
C7_FetchFailureAbortsAttempt ==
    [][\A r \in Slots :
          /\ (\E e \in FetchErrors : Reports(r, e))
                => /\ runs[r].pc = "generate"
                   /\ store' = store
                   /\ runs'[r].sig = Null
                   /\ runs'[r].pc \notin {"generate", "insert"}
                   /\ runs'[r].i = runs[r].i + 1
          /\ runs'[r].pc = "insert"
                => /\ runs'[r].sig # Null
                   /\ \A x \in FetchNames : runs'[r].fetches[1][x] = "ok"]_vars

\* a run reported a failed price fetch for its first symbol and stands at
\* the hold check of the second one, the key still without a row
C7_Witness ==
    \E r \in Slots :
       /\ log = <<r, 1, "priceError">>
       /\ runs[r].i = 2
       /\ runs[r].pc = "check"
       /\ MatchingRows(store, MarketId(MARKETS[1]), watched) = {}

\* the possible answers of the hold gate for a key
DueAnswers(rows, marketId, timeframe, t) ==
    {needsRegeneration(data, t) : data \in SelectLatest(rows, marketId, timeframe)}

\* C8: a failed insert is reported, leaves the store as it was, and the
\* signal is dropped: it is neither kept for another attempt nor inserted
\* later by that run; the hold gate answers for the key as before the
\* failure.  An insert step that adds no row reports the failure.
C8_InsertFailure ==
    [][\A r \in Slots :
          /\ Reports(r, "insertError")
                => /\ runs[r].pc = "insert"
                   /\ store' = store
                   /\ runs'[r].sig = Null
                   /\ runs'[r].pc # "insert"
                   /\ runs'[r].i = runs[r].i + 1
                   /\ DueAnswers(store', MarketId(MARKETS[runs[r].i]), watched, now')
                        = DueAnswers(store, MarketId(MARKETS[runs[r].i]), watched, now)
          /\ (runs[r].pc = "insert" /\ runs'[r] # runs[r] /\ store' = store)
                => Reports(r, "insertError")]_vars

\* a run reported a failed insert for its first symbol, moved on, and the
\* hold gate still answers due for that key
C8_Witness ==
    \E r \in Slots :
       /\ log = <<r, 1, "insertError">>
       /\ runs[r].i = 2
       /\ runs[r].sig = Null
       /\ DueAnswers(store, MarketId(MARKETS[1]), watched, now) = {TRUE}

----------------------------------------------------------------------------
(* generateSignal as a function of the fetched data *)

\* the service's variables while a single function is followed
ServiceAtRest ==
    /\ program = "none"
    /\ watched = "15m"
    /\ now = 0
    /\ store = EmptyBag
    /\ runs = [r \in Slots |-> Idle]
    /\ fired = TRUE
    /\ log = <<>>

\* scores in tenths: the confluence limits +-10 and +-5 and the ends of the
\* score ranges
OrderFlowGrid == {-300, -101, -100, 0, 100, 101, 300}

MomentumGrid == {-300, -101, -100, 0, 100, 101, 300}

SentimentGrid == {-150, -80, 0, 80, 150}

ScoreGrid ==
    [orderFlow : OrderFlowGrid, momentum : MomentumGrid,
     sentiment : SentimentGrid, atrPercent : {10, 50}, totalVolume : {10, 100}]

\* clock values: the epoch, and an instant in the last millisecond of a
\* minute
Clocks == {0, 90 * MsPerMinute + 59999}

\* clamped confidences: every whole point of [0, 100] and its two
\* neighbours in fixed point.  The weighted sum reaches any of them for
\* suitable real scores; the score grid does not, hence the second family
\* of initial states.
ConfGrid ==
    {c * ConfUnit + e : c \in 0..100, e \in {-1, 0, 1}}
        \cap (0..(100 * ConfUnit))

Tiers == {"conservative", "moderate", "aggressive"}

InitSignal ==
    /\ ServiceAtRest
    /\ fp = IdlePrice
    /\ fk = IdleKlines
    /\ calc = IdleCalc
    /\ \/ \E d \in ScoreGrid, a \in Tiers, tf \in TimeframeSet, t \in Clocks,
            sym \in {"BTC", "SOL"} :
             g = [stage |-> "scoring", symbol |-> sym, timeframe |-> tf,
                  aggressiveness |-> a, d |-> d, t |-> t,
                  adjust |-> Null, confidence |-> Null, signal |-> Null]
       \/ \E c \in ConfGrid, a \in Tiers, tf \in TimeframeSet,
            d \in ServiceData :
             g = [stage |-> "thresholding", symbol |-> "ETH", timeframe |-> tf,
                  aggressiveness |-> a, d |-> d, t |-> 59999,
                  adjust |-> Null, confidence |-> Some(c), signal |-> Null]

\* the component scores are combined into the clamped confidence
Score ==
    /\ g.stage = "scoring"
    /\ g' = [g EXCEPT !.stage = "thresholding",
                      !.adjust = Some(ConfluenceAdjustment(g.d)),
                      !.confidence = Some(Confidence(g.d))]
    /\ UNCHANGED <<serviceVars, fp, fk, calc>>

\* thresholds, risk gates, timestamps, the returned record
Threshold ==
    /\ g.stage = "thresholding"
    /\ g' = [g EXCEPT !.stage = "done",
                      !.signal = Some(Assemble(g.symbol, g.timeframe,
                                               g.aggressiveness, g.d,
                                               g.confidence[1], g.t))]
    /\ UNCHANGED <<serviceVars, fp, fk, calc>>

NextSignal == Score \/ Threshold

SpecSignal == InitSignal /\ [][NextSignal]_vars

----------------------------------------------------------------------------
(* fetchPrice: the chain of exchanges *)

\* the `fetchers` array
PriceProviders == <<"CoinGecko", "Kraken", "Coinbase", "Bybit", "CryptoCompare">>

ProviderSet == {PriceProviders[k] : k \in 1..Len(PriceProviders)}

\* SYMBOLS[provider][symbol] is defined; CryptoCompare takes any symbol
SymbolMapped(p, symbol) ==
    p = "CryptoCompare" \/ symbol \in {"BTC", "ETH", "SOL"}

\* one fetcher: the price data, or null for an unmapped symbol, a failed
\* request or an unusable response; `answers` is what the exchanges do
FetchFrom(p, symbol, answers) ==
    IF SymbolMapped(p, symbol) /\ answers[p] = "data"
    THEN Some([symbol |-> symbol, source |-> p])
    ELSE Null

\* In the variant a success does not end the loop.
AfterFetcherKeepsGoing(f, data) ==
    IF data # Null THEN [f EXCEPT !.result = data, !.k = @ + 1]
    ELSE [f EXCEPT !.k = @ + 1]

\* if (data) return data; otherwise the delay and the next fetcher
AfterFetcher(f, data) ==
    IF data # Null THEN [f EXCEPT !.pc = "returned", !.result = data]
    ELSE [f EXCEPT !.k = @ + 1]

InitPrice ==
    /\ ServiceAtRest
    /\ g = IdleSignal
    /\ fk = IdleKlines
    /\ calc = IdleCalc
    /\ \E sym \in {"BTC", "ETH", "SOL", "DOGE"},
         answers \in [ProviderSet -> {"data", "null"}] :
          fp = [pc |-> "loop", symbol |-> sym, answers |-> answers, k |-> 1,
                calls |-> <<>>, result |-> Null]

\* const data = await fetcher(symbol)
CallFetcher ==
    /\ fp.pc = "loop"
    /\ fp.k <= Len(PriceProviders)
    /\ LET p == PriceProviders[fp.k]
       IN  fp' = AfterFetcher([fp EXCEPT !.calls = Append(@, p)],
                              FetchFrom(p, fp.symbol, fp.answers))
    /\ UNCHANGED <<serviceVars, g, fk, calc>>

\* throw new Error(`All APIs failed for ${symbol} ...`)
ThrowAllFailed ==
    /\ fp.pc = "loop"
    /\ fp.k > Len(PriceProviders)
    /\ fp' = [fp EXCEPT !.pc = "thrown"]
    /\ UNCHANGED <<serviceVars, g, fk, calc>>

NextPrice == CallFetcher \/ ThrowAllFailed

SpecPrice == InitPrice /\ [][NextPrice]_vars

----------------------------------------------------------------------------
(* fetchKlines: Kraken, then CryptoCompare *)

\* the longest candle series a source answers with
MaxCandles == 12

\* the greatest `limit` asked for
MaxLimit == 11

\* a source's answer of n candles, oldest first
Series(source, n) == [j \in 1..n |-> [source |-> source, openTime |-> j]]

\* fetchOHLCFromKraken / fetchOHLCFromCryptoCompare: null, or the mapped
\* candles of the response
FetchOHLC(source, outcome) ==
    IF outcome = Null THEN Null ELSE Some(Series(source, outcome[1]))

\* intervalMap[interval] || 15
Mins(interval) ==
    CASE interval = "15m" -> 15
      [] interval = "1h" -> 60
      [] interval = "4h" -> 240
      [] interval = "daily" -> 1440
      [] OTHER -> 15

\* Array.prototype.slice(-limit)
Slice(s, limit) ==
    IF limit = 0 THEN s
    ELSE SubSeq(s, Max(Len(s) - limit, 0) + 1, Len(s))

\* In the variant a series of exactly ten candles is replaced as well.
NeedsFallbackAtTen(data) == data = Null \/ Len(data[1]) <= 10

\* if (!data || data.length < 10)
NeedsFallback(data) == data = Null \/ Len(data[1]) < 10

\* if (data && data.length >= 10) return data.slice(-limit); else throw
Settle(f, data) ==
    IF data # Null /\ Len(data[1]) >= 10
    THEN [f EXCEPT !.pc = "returned", !.data = Some(Slice(data[1], f.limit))]
    ELSE [f EXCEPT !.pc = "thrown"]

Outcomes == {Null} \cup {Some(n) : n \in 0..MaxCandles}

InitKlines ==
    /\ ServiceAtRest
    /\ g = IdleSignal
    /\ fp = IdlePrice
    /\ calc = IdleCalc
    /\ \E interval \in {"15m", "1h", "5m"}, limit \in 9..MaxLimit,
         k \in Outcomes, c \in Outcomes :
          fk = [pc |-> "kraken", mins |-> Mins(interval), limit |-> limit,
                kraken |-> k, cryptoCompare |-> c, consulted |-> <<>>,
                data |-> Null]

\* let data = await fetchOHLCFromKraken(symbol, mins)
AskKraken ==
    /\ fk.pc = "kraken"
    /\ LET data == FetchOHLC("Kraken", fk.kraken)
           f == [fk EXCEPT !.consulted = Append(@, "Kraken")]
       IN  fk' = IF NeedsFallback(data)
                 THEN [f EXCEPT !.pc = "cryptoCompare"]
                 ELSE Settle(f, data)
    /\ UNCHANGED <<serviceVars, g, fp, calc>>

\* data = await fetchOHLCFromCryptoCompare(symbol, mins)
AskCryptoCompare ==
    /\ fk.pc = "cryptoCompare"
    /\ LET data == FetchOHLC("CryptoCompare", fk.cryptoCompare)
           f == [fk EXCEPT !.consulted = Append(@, "CryptoCompare")]
       IN  fk' = Settle(f, data)
    /\ UNCHANGED <<serviceVars, g, fp, calc>>

NextKlines == AskKraken \/ AskCryptoCompare

SpecKlines == InitKlines /\ [][NextKlines]_vars

----------------------------------------------------------------------------
(* Properties of generateSignal, fetchPrice and fetchKlines *)

\* C3: in every emitted signal, tradeable is true exactly when the
\* direction is UP or DOWN, and the confidence is null exactly when the
\* direction is FLAT.
C3_TradeableAndConfidence ==
    g.stage = "done" =>
       LET s == g.signal[1]
       IN  /\ s.direction \in {"UP", "DOWN", "FLAT"}
           /\ s.tradeable <=> s.direction # "FLAT"
           /\ s.confidence = Null <=> s.direction = "FLAT"

\* a FLAT signal computed from scores: not tradeable, no confidence
C3_Witness ==
    /\ g.stage = "done"
    /\ g.d \in ScoreGrid
    /\ g.signal[1].direction = "FLAT"
    /\ ~g.signal[1].tradeable
    /\ g.signal[1].confidence = Null

\* the thresholds of a tier, in fixed point
TierUp(a) ==
    (CASE a = "conservative" -> 70 [] a = "moderate" -> 62 [] a = "aggressive" -> 60)
        * ConfUnit

TierDown(a) ==
    (CASE a = "conservative" -> 30 [] a = "moderate" -> 38 [] a = "aggressive" -> 40)
        * ConfUnit

\* C4: with c the clamped confidence and (up, down) = (70, 30), (62, 38),
\* (60, 40) for conservative, moderate, aggressive: the direction is UP iff
\* c >= up, DOWN iff c <= down, FLAT with tradeable false and confidence
\* null iff down < c < up; c = 50 under aggressive gives FLAT and null.
C4_Thresholds ==
    g.stage = "done" =>
       LET s == g.signal[1]
           c == g.confidence[1]
           up == TierUp(g.aggressiveness)
           down == TierDown(g.aggressiveness)
       IN  /\ s.direction = "UP" <=> c >= up
           /\ s.direction = "DOWN" <=> c <= down
           /\ s.direction = "FLAT" <=> (down < c /\ c < up)
           /\ s.direction = "FLAT" => (~s.tradeable /\ s.confidence = Null)
           /\ (g.aggressiveness = "aggressive" /\ c = 50 * ConfUnit)
                 => (s.direction = "FLAT" /\ s.confidence = Null)

\* a confidence of exactly 62 under the moderate tier gave UP
C4_Witness ==
    /\ g.stage = "done"
    /\ g.aggressiveness = "moderate"
    /\ g.confidence = Some(62 * ConfUnit)
    /\ g.signal[1].direction = "UP"
    /\ g.signal[1].confidence = Some(62)

\* C5: hold_until is generated_at plus 5 minutes for "15m", 15 minutes for
\* "1h", 30 minutes for "daily", to the millisecond, generated_at is the
\* clock value read, and expires_at is null.
C5_HoldWindow ==
    g.stage = "done" =>
       LET s == g.signal[1]
           minutes == CASE s.timeframe = "15m" -> 5
                        [] s.timeframe = "1h" -> 15
                        [] s.timeframe = "daily" -> 30
       IN  /\ s.timeframe = g.timeframe
           /\ ParseDate(s.generated_at) = g.t
           /\ ParseDate(s.hold_until) = ParseDate(s.generated_at) + minutes * 60000
           /\ s.expires_at = Null

\* a daily signal generated in the last millisecond of a minute
C5_Witness ==
    /\ g.stage = "done"
    /\ g.timeframe = "daily"
    /\ g.signal[1].generated_at = <<90, 59999>>
    /\ g.signal[1].hold_until = <<120, 59999>>

\* the provider p answers the symbol of this activation with price data
Succeeds(p) ==
    /\ fp.answers[p] = "data"
    /\ (p = "CryptoCompare" \/ fp.symbol \in {"BTC", "ETH", "SOL"})

\* C9: fetchPrice calls the providers in the order CoinGecko, Kraken,
\* Coinbase, Bybit, CryptoCompare; it returns the data of the first provider
\* that succeeds and calls none after it; it throws only after all five were
\* called and failed, and never returns when all five fail.
C9_FetchPriceOrder ==
    fp.pc # "idle" =>
       LET n == Len(fp.calls)
       IN  /\ n <= 5
           /\ fp.calls = SubSeq(<<"CoinGecko", "Kraken", "Coinbase", "Bybit",
                                  "CryptoCompare">>, 1, n)
           /\ fp.pc = "loop" => (fp.result = Null /\ \A j \in 1..n : ~Succeeds(fp.calls[j]))
           /\ fp.pc = "returned"
                 => /\ n >= 1
                    /\ fp.result # Null
                    /\ fp.result[1].source = fp.calls[n]
                    /\ fp.result[1].symbol = fp.symbol
                    /\ Succeeds(fp.calls[n])
                    /\ \A j \in 1..(n - 1) : ~Succeeds(fp.calls[j])
           /\ fp.pc = "thrown"
                 => /\ n = 5
                    /\ \A p \in ProviderSet : ~Succeeds(p)
           /\ (\A p \in ProviderSet : ~Succeeds(p)) => fp.pc # "returned"
           /\ fp.pc \in {"loop", "returned", "thrown"}

\* CoinGecko and Kraken failed, Coinbase answered: its data is returned, and
\* Bybit, which would have answered too, is not called
C9_Witness ==
    /\ fp.pc = "returned"
    /\ fp.calls = <<"CoinGecko", "Kraken", "Coinbase">>
    /\ fp.result[1].source = "Coinbase"
    /\ fp.answers["Bybit"] = "data"

\* C10: for limit >= 10, fetchKlines returns between 10 and limit candles,
\* the most recent ones of the chosen source in its order, or throws;
\* CryptoCompare is consulted only when Kraken gave null or fewer than 10
\* candles, a Kraken series of 10 or more is what is returned, and the call
\* throws only when neither source gave 10 candles.
C10_FetchKlines ==
    fk.pc # "idle" =>
       LET krakenOk == fk.kraken # Null /\ fk.kraken[1] >= 10
           otherOk == fk.cryptoCompare # Null /\ fk.cryptoCompare[1] >= 10
       IN  /\ (fk.pc = "returned" /\ fk.limit >= 10)
                 => LET d == fk.data[1]
                        src == d[1].source
                        n == IF src = "Kraken" THEN fk.kraken[1]
                             ELSE fk.cryptoCompare[1]
                    IN  /\ Len(d) >= 10
                        /\ Len(d) <= fk.limit
                        /\ Len(d) = Min(n, fk.limit)
                        /\ \A j \in 1..Len(d) :
                              d[j] = [source |-> src, openTime |-> n - Len(d) + j]
                        /\ krakenOk => src = "Kraken"
                        /\ ~krakenOk => src = "CryptoCompare"
           /\ (\E j \in 1..Len(fk.consulted) : fk.consulted[j] = "CryptoCompare")
                 => ~krakenOk
           /\ fk.pc = "thrown" => (~krakenOk /\ ~otherOk /\ fk.data = Null)
           /\ fk.pc = "returned" => (krakenOk \/ otherOk)
           /\ fk.pc \in {"kraken", "cryptoCompare", "returned", "thrown"}

\* Kraken gave 9 candles, CryptoCompare 12: the last 11 of CryptoCompare's
\* are returned
C10_Witness ==
    /\ fk.pc = "returned"
    /\ fk.kraken = Some(9)
    /\ fk.cryptoCompare = Some(12)
    /\ fk.limit = 11
    /\ fk.consulted = <<"Kraken", "CryptoCompare">>
    /\ Len(fk.data[1]) = 11
    /\ fk.data[1][1] = [source |-> "CryptoCompare", openTime |-> 2]

\* C11: the confluence adjustment is +8 exactly when orderFlow > 10,
\* momentum > 10 and sentiment > 5, -8 exactly when orderFlow < -10,
\* momentum < -10 and sentiment < -5, and 0 otherwise; a score on its cutoff
\* does not count.  The sentiment calculator never returns 5, so that cutoff
\* is evaluated on the function directly.
C11_Confluence ==
    /\ g.stage # "idle" /\ g.adjust # Null
          => LET a == g.adjust[1]
                 bullish == g.d.orderFlow > 100 /\ g.d.momentum > 100
                               /\ g.d.sentiment > 50
                 bearish == g.d.orderFlow < -100 /\ g.d.momentum < -100
                               /\ g.d.sentiment < -50
             IN  /\ a \in {8, 0, -8}
                 /\ a = 8 <=> bullish
                 /\ a = -8 <=> bearish
                 /\ (g.d.orderFlow = 100 \/ g.d.momentum = 100) => a # 8
                 /\ (g.d.orderFlow = -100 \/ g.d.momentum = -100) => a # -8
    /\ \A se \in {50, -50} :
          ConfluenceAdjustment([orderFlow |-> 6 * se, momentum |-> 6 * se,
                                sentiment |-> se]) = 0

\* momentum exactly 10 beside a bullish order flow and sentiment: no bonus
C11_Witness ==
    /\ g.stage = "thresholding"
    /\ g.d.orderFlow = 101
    /\ g.d.momentum = 100
    /\ g.d.sentiment = 80
    /\ g.adjust = Some(0)

\* C12: for scores within their ranges the confidence used for thresholding
\* is clamp(50 + 1.67 * (0.35 orderFlow + 0.40 momentum + 0.25 sentiment)
\* + confluence adjustment, 0, 100); the confidence on the emitted signal is
\* null or an integer of 0..100; a raw score of 30 gives confidence 100 and
\* UP under the aggressive tier.
C12_ConfidenceFormula ==
    /\ (g.stage \in {"thresholding", "done"} /\ g.adjust # Null)
          => LET weighted == 35 * g.d.orderFlow + 40 * g.d.momentum
                                + 25 * g.d.sentiment
                 unclamped == 5000000 + 167 * weighted + g.adjust[1] * 100000
                 expected == IF unclamped < 0 THEN 0
                             ELSE IF unclamped > 10000000 THEN 10000000
                             ELSE unclamped
             IN  /\ g.d.orderFlow \in -300..300
                 /\ g.d.momentum \in -300..300
                 /\ g.d.sentiment \in -200..200
                 /\ g.confidence = Some(expected)
    /\ g.stage = "done"
          => \/ g.signal[1].confidence = Null
             \/ g.signal[1].confidence[1] \in 0..100
    /\ LET r == Resolve(Clamp(MapRaw(30 * 1000)), "aggressive")
       IN  /\ Clamp(MapRaw(30 * 1000)) = 100 * ConfUnit
           /\ r.direction = "UP"
           /\ r.tradeable
           /\ EmittedConfidence(r) = Some(100)

\* the greatest scores the calculators return: 50 + 1.67 * 26.25 + 8 is past
\* 100, the confidence is clamped to 100 and the aggressive signal is UP
C12_Witness ==
    /\ g.stage = "done"
    /\ g.d.orderFlow = 300 /\ g.d.momentum = 300 /\ g.d.sentiment = 150
    /\ g.adjust = Some(8)
    /\ g.confidence = Some(100 * ConfUnit)
    /\ g.aggressiveness = "aggressive"
    /\ g.signal[1].direction = "UP"
    /\ g.signal[1].confidence = Some(100)

----------------------------------------------------------------------------
(* calculateOrderFlowScore *)

\* the other variables while a calculator is followed
AllAtRest ==
    /\ ServiceAtRest
    /\ g = IdleSignal
    /\ fp = IdlePrice
    /\ fk = IdleKlines

\* In the variant the imbalance is recomputed from the two volumes.
calculateOrderFlowScoreFromVolumes(orderBook) ==
    LET imbalance == (1000 * orderBook.bidVolume)
                        \div (orderBook.bidVolume + orderBook.askVolume)
        score == (imbalance - 500) * 60
    IN  Max(-30000, Min(30000, score))

\* imbalance in thousandths, the score in thousandths of a point:
\* (imbalance - 0.5) * 60, clamped to [-30, 30]
calculateOrderFlowScore(orderBook) ==
    LET imbalance == orderBook.imbalance
        score == (imbalance - 500) * 60
    IN  Max(-30000, Min(30000, score))

\* imbalances in thousandths: the ends and the middle of [0, 1], the ends
\* 0.3 and 0.7 of the estimated books, 0.8, and one value past each end
ImbalanceGrid == {-200, 0, 1, 300, 499, 500, 501, 700, 800, 999, 1000, 1200}

OrderBooks ==
    [imbalance : ImbalanceGrid, bidVolume : {10, 100}, askVolume : {10, 100}]

\* two order books are scored one after the other
InitOrderFlow ==
    /\ AllAtRest
    /\ \E a \in OrderBooks, b \in OrderBooks :
          calc = [fn |-> "orderFlow", a |-> a, b |-> b, ra |-> Null, rb |-> Null]

ScoreFirstBook ==
    /\ calc.fn = "orderFlow"
    /\ calc.ra = Null
    /\ calc' = [calc EXCEPT !.ra = Some(calculateOrderFlowScore(calc.a))]
    /\ UNCHANGED <<serviceVars, g, fp, fk>>

ScoreSecondBook ==
    /\ calc.fn = "orderFlow"
    /\ calc.ra # Null
    /\ calc.rb = Null
    /\ calc' = [calc EXCEPT !.rb = Some(calculateOrderFlowScore(calc.b))]
    /\ UNCHANGED <<serviceVars, g, fp, fk>>

NextOrderFlow == ScoreFirstBook \/ ScoreSecondBook

SpecOrderFlow == InitOrderFlow /\ [][NextOrderFlow]_vars

\* the claimed value of the score for an imbalance, thousandths
ClaimedOrderFlow(imbalance) ==
    LET raw == (imbalance - 500) * 60
    IN  IF raw < -30000 THEN -30000 ELSE IF raw > 30000 THEN 30000 ELSE raw

\* C13: calculateOrderFlowScore is clamp((imbalance - 0.5) * 60, -30, 30):
\* within [-30, 30], non-decreasing in the imbalance, the same for equal
\* imbalances whatever the volumes, and 18 for imbalance 0.8.
C13_OrderFlowScore ==
    calc.fn = "orderFlow" =>
       /\ calc.ra # Null
             => /\ calc.ra[1] = ClaimedOrderFlow(calc.a.imbalance)
                /\ calc.ra[1] >= -30000 /\ calc.ra[1] <= 30000
                /\ calc.a.imbalance = 800 => calc.ra[1] = 18000
       /\ calc.rb # Null
             => /\ calc.rb[1] = ClaimedOrderFlow(calc.b.imbalance)
                /\ calc.rb[1] >= -30000 /\ calc.rb[1] <= 30000
                /\ calc.a.imbalance <= calc.b.imbalance => calc.ra[1] <= calc.rb[1]
                /\ calc.a.imbalance >= calc.b.imbalance => calc.ra[1] >= calc.rb[1]
                /\ calc.a.imbalance = calc.b.imbalance => calc.ra[1] = calc.rb[1]

\* imbalance 0.8 scored 18 with two different pairs of volumes
C13_Witness ==
    /\ calc.fn = "orderFlow"
    /\ calc.a.imbalance = 800 /\ calc.b.imbalance = 800
    /\ calc.a.bidVolume # calc.b.bidVolume
    /\ calc.ra = Some(18000)
    /\ calc.rb = Some(18000)

----------------------------------------------------------------------------
(* calculateRSI *)

\* exact rational numbers <<numerator, denominator>>, denominator > 0, in
\* lowest terms
RECURSIVE GCD(_, _)
GCD(a, b) == IF b = 0 THEN a ELSE GCD(b, a % b)

Abs(a) == IF a < 0 THEN -a ELSE a

Rat(n, d) ==
    LET sign == IF d < 0 THEN -1 ELSE 1
        k == GCD(Abs(n), Abs(d))
    IN  <<(sign * n) \div k, (sign * d) \div k>>

RInt(n) == <<n, 1>>

RAdd(x, y) == Rat(x[1] * y[2] + y[1] * x[2], x[2] * y[2])

RSub(x, y) == Rat(x[1] * y[2] - y[1] * x[2], x[2] * y[2])

RMul(x, y) == Rat(x[1] * y[1], x[2] * y[2])

RDiv(x, y) == Rat(x[1] * y[2], x[2] * y[1])

\* for (let i = 1; i <= period; i++): <<gains, losses>> after the
\* iterations i..period; closes[i] of the code is closes[i + 1] here
RECURSIVE GainLossLoop(_, _, _, _, _)
GainLossLoop(closes, i, period, gains, losses) ==
    IF i > period THEN <<gains, losses>>
    ELSE LET change == closes[i + 1] - closes[i]
         IN  IF change > 0
             THEN GainLossLoop(closes, i + 1, period, gains + change, losses)
             ELSE GainLossLoop(closes, i + 1, period, gains, losses - change)

\* the value returned from the sums of gains and losses
RSIFromSums(gl, period) ==
    LET avgGain == Rat(gl[1], period)
        avgLoss == Rat(gl[2], period)
    IN  IF avgLoss = RInt(0) THEN RInt(100)
        ELSE LET rs == RDiv(avgGain, avgLoss)
             IN  RSub(RInt(100), RDiv(RInt(100), RAdd(RInt(1), rs)))

\* In the variant the window is the last period + 1 closes.
calculateRSILatest(closes, period) ==
    IF Len(closes) < period + 1 THEN RInt(50)
    ELSE RSIFromSums(GainLossLoop(SubSeq(closes, Len(closes) - period, Len(closes)),
                                  1, period, 0, 0), period)

calculateRSI(closes, period) ==
    IF Len(closes) < period + 1 THEN RInt(50)
    ELSE RSIFromSums(GainLossLoop(closes, 1, period, 0, 0), period)

\* the greatest period
MaxPeriod == 3

\* closes beyond the window
MaxBeyond == 2

ClosePrices == {10, 11, 13}

RECURSIVE SeqsUpTo(_, _)
SeqsUpTo(S, n) ==
    IF n = 0 THEN {<<>>}
    ELSE LET shorter == SeqsUpTo(S, n - 1)
         IN  shorter \cup {Append(q, x) : q \in {t \in shorter : Len(t) = n - 1},
                                          x \in S}

InitRSI ==
    /\ AllAtRest
    /\ \E period \in 2..MaxPeriod :
          \E closes \in SeqsUpTo(ClosePrices, period + 1 + MaxBeyond) :
             calc = [fn |-> "rsi", closes |-> closes, period |-> period,
                     result |-> Null]

EvaluateRSI ==
    /\ calc.fn = "rsi"
    /\ calc.result = Null
    /\ calc' = [calc EXCEPT !.result = Some(calculateRSI(calc.closes, calc.period))]
    /\ UNCHANGED <<serviceVars, g, fp, fk>>

NextRSI == EvaluateRSI

SpecRSI == InitRSI /\ [][NextRSI]_vars

\* the deltas of the first period + 1 closes
WindowDeltas(closes, period) ==
    [i \in 1..period |-> closes[i + 1] - closes[i]]

RECURSIVE SumOver(_, _, _)
SumOver(f, n, positive) ==
    IF n = 0 THEN 0
    ELSE SumOver(f, n - 1, positive)
            + (IF positive THEN (IF f[n] > 0 THEN f[n] ELSE 0)
               ELSE (IF f[n] < 0 THEN -f[n] ELSE 0))

\* C14: calculateRSI returns 50 for inputs of length 0..period; for longer
\* inputs it is a function of the first period + 1 closes: 100 when none of
\* their deltas is negative (a flat window included), otherwise
\* 100 - 100 / (1 + avgGain / avgLoss) = 100 * gains / (gains + losses),
\* at least 0 and below 100.
C14_RSI ==
    (calc.fn = "rsi" /\ calc.result # Null) =>
       LET r == calc.result[1]
           n == Len(calc.closes)
           p == calc.period
       IN  /\ r[2] > 0
           /\ n <= p => r = <<50, 1>>
           /\ n > p =>
                 LET dl == WindowDeltas(calc.closes, p)
                     gains == SumOver(dl, p, TRUE)
                     losses == SumOver(dl, p, FALSE)
                 IN  /\ (\A i \in 1..p : dl[i] >= 0) => r = <<100, 1>>
                     /\ (\E i \in 1..p : dl[i] < 0)
                           => /\ r[1] * (gains + losses) = 100 * gains * r[2]
                              /\ r[1] >= 0
                              /\ r[1] < 100 * r[2]

\* five closes, period 3: a fall after the window does not count, the
\* window has gains 3 and losses 2, the value is 60
C14_Witness ==
    /\ calc.fn = "rsi"
    /\ calc.period = 3
    /\ calc.closes = <<10, 13, 11, 11, 10>>
    /\ calc.result = Some(<<60, 1>>)

----------------------------------------------------------------------------
(* calculateEMA, calculateMACD, calculateMomentumScore *)

\* Prices, averages and scores of this section are fixed-point numbers with
\* three decimals; a quotient is rounded down to that grid, as a double
\* rounds to its own.
FixedOne == 10 * 100

\* a rational number on the fixed-point grid
Fix(r) == (r[1] * FixedOne) \div r[2]

\* for (let i = 1; i < data.length; i++)
\*     ema = (data[i] - ema) * multiplier + ema, multiplier = 2 / (period + 1)
RECURSIVE EMALoop(_, _, _, _)
EMALoop(data, i, period, ema) ==
    IF i > Len(data) THEN ema
    ELSE EMALoop(data, i + 1, period,
                 ((data[i] - ema) * 2) \div (period + 1) + ema)

calculateEMA(data, period) ==
    IF Len(data) = 0 THEN 0
    ELSE EMALoop(data, 2, period, data[1])

\* ema12 - ema26
MACDLine(closes) == calculateEMA(closes, 12) - calculateEMA(closes, 26)

\* In the variant the signal line is the EMA of the MACD lines of the nine
\* latest prefixes of closes.
calculateMACDRolling(closes) ==
    LET macd == MACDLine(closes)
        n == Len(closes)
        series == [k \in 1..9 |->
                     IF n - 9 + k >= 1 THEN MACDLine(SubSeq(closes, 1, n - 9 + k))
                     ELSE 0]
        signal == calculateEMA(series, 9)
    IN  [macd |-> macd, signal |-> signal, histogram |-> macd - signal]

\* signal = calculateEMA([...Array(9).fill(macd)], 9)
calculateMACD(closes) ==
    LET macd == MACDLine(closes)
        signal == calculateEMA([k \in 1..9 |-> macd], 9)
    IN  [macd |-> macd, signal |-> signal, histogram |-> macd - signal]

ClampTo(lo, hi, x) == Max(lo, Min(hi, x))

\* (recentCloses[4] - recentCloses[0]) / recentCloses[0] * 100
TrendStrength(closes) ==
    LET recentCloses == SubSeq(closes, Len(closes) - 4, Len(closes))
    IN  ((recentCloses[5] - recentCloses[1]) * 100 * FixedOne) \div recentCloses[1]

\* the RSI contribution: overbought, oversold, neutral zone
RSITerm(rsi) ==
    IF rsi > 70 * FixedOne THEN -(((rsi - 70 * FixedOne) * 3) \div 2)
    ELSE IF rsi < 30 * FixedOne THEN ((30 * FixedOne - rsi) * 3) \div 2
    ELSE (rsi - 50 * FixedOne) \div 2

\* the values calculateMomentumScore computes on its way, and its result
calculateMomentumScore(closes) ==
    IF Len(closes) < 20
    THEN [rsi |-> Null, histogram |-> Null, trend |-> Null, score |-> 0]
    ELSE LET rsi == Fix(calculateRSI(closes, 14))
             histogram == calculateMACD(closes).histogram
             trendStrength == TrendStrength(closes)
             score == RSITerm(rsi)
                        + ClampTo(-20 * FixedOne, 20 * FixedOne, histogram * 100)
                        + ClampTo(-10 * FixedOne, 10 * FixedOne, trendStrength * 2)
         IN  [rsi |-> Some(rsi), histogram |-> Some(histogram),
              trend |-> Some(trendStrength),
              score |-> ClampTo(-30 * FixedOne, 30 * FixedOne, score)]

\* a pattern of closes repeated up to n candles
Cycle(pat, n) == [i \in 1..n |-> pat[((i - 1) % Len(pat)) + 1] * FixedOne]

\* closes series: every series of up to 3 closes, and series of 19, 20, 21
\* and 30 closes made of a repeated pattern of up to 3 prices
ClosesSeries ==
    {Cycle(pat, Len(pat)) : pat \in SeqsUpTo(ClosePrices, 3)}
      \cup {Cycle(pat, n) : pat \in SeqsUpTo(ClosePrices, 3) \ {<<>>},
                            n \in {19, 20, 21, 30}}

InitMACD ==
    /\ AllAtRest
    /\ \E closes \in ClosesSeries :
          calc = [fn |-> "macd", closes |-> closes, macd |-> Null,
                  momentum |-> Null]

EvaluateMACD ==
    /\ calc.fn = "macd"
    /\ calc.macd = Null
    /\ calc' = [calc EXCEPT !.macd = Some(calculateMACD(calc.closes))]
    /\ UNCHANGED <<serviceVars, g, fp, fk>>

EvaluateMomentum ==
    /\ calc.fn = "macd"
    /\ calc.momentum = Null
    /\ calc' = [calc EXCEPT !.momentum = Some(calculateMomentumScore(calc.closes))]
    /\ UNCHANGED <<serviceVars, g, fp, fk>>

NextMACD == EvaluateMACD \/ EvaluateMomentum

SpecMACD == InitMACD /\ [][NextMACD]_vars

\* C18: calculateMACD returns signal equal to macd and histogram 0 for every
\* closes series, so the momentum score is the clamped sum of the RSI term
\* and the 5-candle trend term alone (0 for fewer than 20 candles).
C18_MACDSignal ==
    calc.fn = "macd" =>
       /\ calc.macd # Null
             => /\ calc.macd[1].signal = calc.macd[1].macd
                /\ calc.macd[1].histogram = 0
       /\ calc.momentum # Null
             => LET m == calc.momentum[1]
                IN  /\ Len(calc.closes) < 20 => m.score = 0
                    /\ Len(calc.closes) >= 20
                          => /\ m.histogram = Some(0)
                             /\ LET trendTerm ==
                                      IF m.trend[1] * 2 > 10000 THEN 10000
                                      ELSE IF m.trend[1] * 2 < -10000 THEN -10000
                                      ELSE m.trend[1] * 2
                                    both == RSITerm(m.rsi[1]) + trendTerm
                                IN  m.score = IF both > 30000 THEN 30000
                                              ELSE IF both < -30000 THEN -30000
                                              ELSE both

\* twenty closes whose two averages differ: the MACD line is not 0, the
\* signal line equals it, and the momentum score is not 0
C18_Witness ==
    /\ calc.fn = "macd"
    /\ Len(calc.closes) = 20
    /\ calc.macd # Null
    /\ calc.macd[1].macd # 0
    /\ calc.macd[1].signal = calc.macd[1].macd
    /\ calc.momentum # Null
    /\ calc.momentum[1].score # 0

----------------------------------------------------------------------------
(* Risk gates, the store's growth, regeneration *)

\* the signals a state holds: stored, or generated and waiting for the insert
SignalsAround ==
    BagToSet(store) \cup {runs[r].sig[1] : r \in {q \in Slots : runs[q].sig # Null}}

\* over the score grid, every tier and every value of the gate inputs: the
\* gates are consistent with the signal and leave direction, confidence and
\* tradeable as they are
GateInputsIgnored ==
    \A d \in ScoreGrid, a \in Tiers :
       LET s1 == generateSignal("BTC", "15m", a, d, 0)
       IN  /\ s1.conflict_pass = s1.tradeable
           /\ s1.time_pass /\ s1.correlation_pass
           /\ s1.volatility_pass <=> d.atrPercent < 50
           /\ s1.liquidity_pass <=> d.totalVolume > 10
           /\ \A atr \in {10, 50, 60}, vol \in {10, 100} :
                 LET s2 == generateSignal("BTC", "15m", a,
                              [d EXCEPT !.atrPercent = atr, !.totalVolume = vol], 0)
                 IN  /\ s2.direction = s1.direction
                     /\ s2.confidence = s1.confidence
                     /\ s2.tradeable = s1.tradeable

\* C15: on every emitted signal conflict_pass equals tradeable and time_pass
\* and correlation_pass are true; volatility_pass and liquidity_pass change
\* neither direction, confidence nor tradeable, and a signal whose
\* volatility gate failed is generated, tradeable and inserted like any other.
C15_GatesObservational ==
    /\ GateInputsIgnored
    /\ \A s \in SignalsAround :
          /\ s.conflict_pass = s.tradeable
          /\ s.time_pass
          /\ s.correlation_pass
          /\ ~s.volatility_pass => (s.tradeable /\ s.direction = "UP")

\* a run has just stored a tradeable signal whose volatility gate failed
C15_Witness ==
    /\ \E r \in Slots : log = <<r, 1, "stored">>
    /\ \E s \in BagToSet(store) :
          /\ ~s.volatility_pass
          /\ s.tradeable
          /\ s.generated_at = ToISOString(now)

\* the stored signals of one key, with their multiplicities
KeyBag(rows, marketId, timeframe) ==
    [k \in MatchingRows(rows, marketId, timeframe) |-> rows[k]]

MarketIds == {MarketId(MARKETS[k]) : k \in 1..Len(MARKETS)}

\* C16: every step leaves the stored signals of each key as they are or
\* adds exactly one signal to one key, the key of the run's current symbol;
\* no stored signal is changed or removed; an answered hold check follows
\* the signal with the greatest generated_at of its key.
C16_StoreOnlyGrows ==
    [][/\ \A k \in BagToSet(store) : CopiesIn(k, store') >= CopiesIn(k, store)
       /\ \/ store' = store
          \/ \E r \in Slots :
                /\ runs[r].pc = "insert"
                /\ Reports(r, "stored")
                /\ store' = store (+) SetToBag({runs[r].sig[1]})
                /\ BagCardinality(store') = BagCardinality(store) + 1
                /\ runs[r].sig[1].market_id = MarketId(MARKETS[runs[r].i])
                /\ runs[r].sig[1].timeframe = watched
                /\ \A m \in MarketIds \ {MarketId(MARKETS[runs[r].i])} :
                      KeyBag(store', m, watched) = KeyBag(store, m, watched)
       /\ \A r \in Slots :
             LET m == MarketId(MARKETS[runs[r].i])
             IN  /\ Reports(r, "holding")
                       => \E k \in LatestRows(store, m, watched) :
                             now <= ParseDate(k.hold_until)
                 /\ Reports(r, "due")
                       => \/ MatchingRows(store, m, watched) = {}
                          \/ \E k \in LatestRows(store, m, watched) :
                                now > ParseDate(k.hold_until)]_vars

\* a key holds an expired signal and a later one that still holds, and a
\* run's hold check has just followed the later one
C16_Witness ==
    \E r \in Slots :
       /\ log = <<r, 1, "holding">>
       /\ \E a \in MatchingRows(store, MarketId(MARKETS[1]), watched) :
             /\ now > ParseDate(a.hold_until)
             /\ \E b \in MatchingRows(store, MarketId(MARKETS[1]), watched) :
                   /\ ParseDate(b.generated_at) > ParseDate(a.generated_at)
                   /\ now <= ParseDate(b.hold_until)

----------------------------------------------------------------------------
(* The service over an unbounded run of cron instants *)

\* the insert, without the bound on the rows of the store
InsertLive(r) ==
    LET run == runs[r]
    IN  /\ run.pc = "insert"
        /\ \/ /\ store' = store (+) SetToBag({run.sig[1]})
              /\ runs' = [runs EXCEPT ![r] = OnInserted(run)]
              /\ log' = <<r, run.i, "stored">>
           \/ /\ store' = store
              /\ runs' = [runs EXCEPT ![r] = OnInsertError(run)]
              /\ log' = <<r, run.i, "insertError">>
        /\ UNCHANGED <<program, watched, now, fired, g, fp, fk, calc>>

\* the next scheduled instant; past the last followed instant the clock
\* value is kept and only the cron callback is due again
TickLive ==
    /\ fired \/ \A r \in Slots \ {0} : runs[r] # Idle
    /\ now' = IF now < StartMs(watched) + MaxTicks * CRON_MINUTES[watched] * MsPerMinute
              THEN now + CRON_MINUTES[watched] * MsPerMinute
              ELSE now
    /\ fired' = FALSE
    /\ log' = <<>>
    /\ UNCHANGED <<program, watched, store, runs, g, fp, fk, calc>>

\* the slots of the cron-triggered runs
CronSlots == Slots \ {0}

\* the service once its startup pass is over, whatever that pass stored;
\* the cron callback of the first instant is still to come
InitLive ==
    /\ program = "service"
    /\ watched \in TimeframeSet
    /\ now = StartMs(watched)
    /\ store \in {EmptyBag, PriorStore(watched)}
    /\ runs = [r \in Slots |-> Idle]
    /\ fired = FALSE
    /\ log = <<>>
    /\ g = IdleSignal
    /\ fp = IdlePrice
    /\ fk = IdleKlines
    /\ calc = IdleCalc

\* one step of the run r, whichever it is at
RunStep(r) ==
    \/ CheckAnswered(r)
    \/ Generate(r)
    \/ InsertLive(r)
    \/ EndPass(r)

\* the schedule: the callback of the current instant, or the next instant
Schedule ==
    \/ \E r \in CronSlots : CronFire(r)
    \/ TickLive

NextLive ==
    \/ \E r \in CronSlots : RunStep(r)
    \/ Schedule

\* the generation of the run r for its symbol i succeeds
GenerateSucceeds(r, i) ==
    Generate(r) /\ runs[r].i = i /\ runs'[r].pc = "insert"

\* the insert of the run r for its symbol i succeeds
InsertSucceeds(r, i) ==
    InsertLive(r) /\ runs[r].i = i /\ store' # store

\* the cron callback keeps being called, every started step of a run ends,
\* and for each symbol fetches and inserts that are tried again and again
\* succeed at some time
LiveFairness ==
    /\ WF_vars(Schedule)
    /\ \A r \in CronSlots :
          /\ WF_vars(RunStep(r))
          /\ \A i \in 1..Len(MARKETS) :
                /\ SF_vars(GenerateSucceeds(r, i))
                /\ SF_vars(InsertSucceeds(r, i))

SpecLive == InitLive /\ [][NextLive]_vars /\ LiveFairness

\* the key of the i-th symbol has no stored signal, or its latest one has
\* expired
DueKey(i) == ExpectedDue(store, MarketId(MARKETS[i]), watched, now)

\* C17: with the cron callback firing again and again and fetches and
\* inserts succeeding at some time, for every symbol of MARKETS: whenever
\* its key has no stored signal or the hold window of its latest signal has
\* elapsed, a new signal of the key, holding at that time, is stored later.
C17_RegenerationHappens ==
    \A i \in 1..Len(MARKETS) : DueKey(i) ~> ~DueKey(i)

\* a cron run has just stored a new signal for the last symbol, whose
\* earlier signal has expired
C17_Witness ==
    /\ log = <<1, Len(MARKETS), "stored">>
    /\ runs[1].kind # "idle"
    /\ \E a \in MatchingRows(store, MarketId(MARKETS[Len(MARKETS)]), watched) :
          /\ now > ParseDate(a.hold_until)
          /\ \E b \in MatchingRows(store, MarketId(MARKETS[Len(MARKETS)]), watched) :
                /\ b.generated_at = ToISOString(now)
                /\ now <= ParseDate(b.hold_until)

====
